---- MODULE Spec2Model ----
(***************************************************************************)
(* Model of nawdex_analysis/io/collector.py: the collection and merge of   *)
(* simulated and observed CRE statistics.                                  *)
(*                                                                         *)
(* A timestamp is an integer t; its calendar day is t \div SlotsPerDay and *)
(* its time of day is t % SlotsPerDay.  A labeled dataset is a record      *)
(*   time    : sequence of timestamps (the time axis, row by row)          *)
(*   idname  : set of identities (the idname axis)                         *)
(*   cre     : [row x idname x ct -> value or NaN]                         *)
(*   expname : [idname -> name or NaN]  (per set), or                      *)
(*             [row x idname -> name or NaN] after a concat along time     *)
(***************************************************************************)
EXTENDS Integers, Sequences, FiniteSets, TLC

\* ------------------------------------------------------------------ bounds
MaxDay == 1
SlotsPerDay == 2
MaxSet == 2
MaxReq == 2

\* --------------------------------------------------------------- constants
DefaultLo == 1
DefaultHi == 4
DefaultRange == <<DefaultLo, DefaultHi>>

NaN == -1
NoName == "NaN"
NoId == ""
CT == {"clear_ocean", "cloudy"}
Parts == {"-scaled", "-not_scaled"}
Methods == {"all", "strict"}

Days == 0..MaxDay
Times == 0..((MaxDay + 1) * SlotsPerDay - 1)
SetNumbers == 0..MaxSet

\* ------------------------------------------------------------- primitives
DayOf(t) == t \div SlotsPerDay

OneDay == SlotsPerDay

SetMin(S) == CHOOSE x \in S : \A y \in S : x <= y

SetMax(S) == CHOOSE x \in S : \A y \in S : y <= x

RECURSIVE SortedSeq(_)
SortedSeq(S) ==
    IF S = {} THEN <<>> ELSE <<SetMin(S)>> \o SortedSeq(S \ {SetMin(S)})

Range(s) == {s[i] : i \in 1..Len(s)}

\* an array held in memory: the same function, with every element computed
Stored(f) == f @@ <<>>

Reverse(s) == [i \in 1..Len(s) |-> s[Len(s) + 1 - i]]

RECURSIVE Flatten(_)
Flatten(ss) == IF ss = <<>> THEN <<>> ELSE Head(ss) \o Flatten(Tail(ss))

\* ---------------------------------------------------- external collaborators
Exps == {"expA", "expB", "expC"}

expname2conf_str(expname) ==
    IF expname = "expB" THEN "confB" ELSE "confA"

gather_simset(set_number) ==
    CASE set_number % 3 = 1 -> <<"expA", "expB">>
      [] set_number % 3 = 2 -> <<"expC">>
      [] OTHER              -> <<"expB", "expA", "expC">>

set_dateslices(set_number) ==
    CASE set_number % 3 = 1 -> <<0, MaxDay>>
      [] set_number % 3 = 2 -> <<1, MaxDay>>
      [] OTHER              -> <<0, 0>>

\* ------------------------------------------------------------ files on disk
SimShapes == {"missing", "full", "nanclear", "short"}
ObsShapes == {"missing", "full", "half"}

ExpNo(expname) ==
    CASE expname = "expA" -> 1 [] expname = "expB" -> 2 [] OTHER -> 3

CtNo(c) == IF c = "clear_ocean" THEN 0 ELSE 1

FileValue(k, t, c) == 100 * k + 2 * t + CtNo(c)

SimFileTimes(shape) ==
    IF shape = "short" THEN SortedSeq({t \in Times : DayOf(t) = 0})
    ELSE SortedSeq(Times)

SimFile(expname, shape) ==
    LET tt == SimFileTimes(shape) IN
    [time    |-> tt,
     idname  |-> {NoId},
     cre     |-> Stored([x \in (1..Len(tt)) \X {NoId} \X CT |->
                    IF shape = "nanclear" /\ x[1] = 1 /\ x[3] = "clear_ocean"
                    THEN NaN ELSE FileValue(ExpNo(expname), tt[x[1]], x[3])]),
     expname |-> Stored([i \in {NoId} |-> NoName])]

ObsFileTimes(day, shape) ==
    IF shape = "half" THEN <<day * SlotsPerDay>>
    ELSE SortedSeq({t \in Times : DayOf(t) = day})

PartNo(file_part) == IF file_part = "-scaled" THEN 7 ELSE 8

ObsFile(file_part, day, shape) ==
    LET tt == ObsFileTimes(day, shape) IN
    [time    |-> tt,
     idname  |-> {NoId},
     cre     |-> Stored([x \in (1..Len(tt)) \X {NoId} \X CT |->
                    FileValue(PartNo(file_part), tt[x[1]], x[3])]),
     expname |-> Stored([i \in {NoId} |-> NoName])]

\* ----------------------------------------------------------- dataset algebra
RowOf(d, t) == CHOOSE i \in 1..Len(d.time) : d.time[i] = t

\* expand_dims('idname') and the assignment of the expname and idname tags
Tagged(f, expname, idname) ==
    [time    |-> f.time,
     idname  |-> {idname},
     cre     |-> Stored([x \in (1..Len(f.time)) \X {idname} \X CT |->
                    f.cre[<<x[1], NoId, x[3]>>]]),
     expname |-> Stored([i \in {idname} |-> expname])]

CreAt(d, t, i, c) ==
    IF t \in Range(d.time) /\ i \in d.idname
    THEN d.cre[<<RowOf(d, t), i, c>>] ELSE NaN

NameAt(d, i) == IF i \in d.idname THEN d.expname[i] ELSE NoName

Clash(a, b, na) == a # na /\ b # na /\ a # b

\* variant: the last dataset of the list overrides, missing values included
FillNaOverride(vals, na) == vals[Len(vals)]

\* first non-missing value in list order (fillna folded over the list)
FillNa(vals, na) ==
    LET ks == {k \in 1..Len(vals) : vals[k] # na} IN
    IF ks = {} THEN na ELSE vals[SetMin(ks)]

MergeConflict(dlist) ==
    LET tu == UNION {Range(dlist[k].time) : k \in 1..Len(dlist)}
        iu == UNION {dlist[k].idname : k \in 1..Len(dlist)}
    IN \E k \in 2..Len(dlist) : \E i \in iu :
          \/ Clash(NameAt(dlist[1], i), NameAt(dlist[k], i), NoName)
          \/ \E t \in tu : \E c \in CT :
                Clash(CreAt(dlist[1], t, i, c), CreAt(dlist[k], t, i, c), NaN)

Merge(dlist) ==
    LET tu == UNION {Range(dlist[k].time) : k \in 1..Len(dlist)}
        iu == UNION {dlist[k].idname : k \in 1..Len(dlist)}
        tt == SortedSeq(tu)
    IN [time    |-> tt,
        idname  |-> iu,
        cre     |-> Stored([x \in (1..Len(tt)) \X iu \X CT |->
                       FillNa([k \in 1..Len(dlist) |->
                                 CreAt(dlist[k], tt[x[1]], x[2], x[3])], NaN)]),
        expname |-> Stored([i \in iu |->
                       FillNa([k \in 1..Len(dlist) |-> NameAt(dlist[k], i)], NoName)])]

\* rows of d, in order, picked by the row numbers in rows
TakeRows(d, rows) ==
    [time    |-> Stored([j \in 1..Len(rows) |-> d.time[rows[j]]]),
     idname  |-> d.idname,
     cre     |-> Stored([x \in (1..Len(rows)) \X d.idname \X CT |->
                    d.cre[<<rows[x[1]], x[2], x[3]>>]]),
     expname |-> d.expname]

SelSlice(d, date_slice) ==
    TakeRows(d, SortedSeq({j \in 1..Len(d.time) :
                             /\ date_slice[1] <= DayOf(d.time[j])
                             /\ DayOf(d.time[j]) <= date_slice[2]}))

\* ------------------------------------------------------------------ outcomes
NoData == [time |-> <<>>, idname |-> {}, cre |-> <<>>, expname |-> <<>>]

Failed(status, opened, resolved) ==
    [status |-> status, dset |-> NoData, opened |-> opened,
     resolved |-> resolved]

Returned(dset, opened, resolved) ==
    [status |-> "ok", dset |-> dset, opened |-> opened, resolved |-> resolved]

SimName(expname) == <<"sim", expname>>

ObsName(file_part, day) == <<"obs", file_part, day>>

\* ------------------------------------------------------ Simulation Collector
\* the names of the files opened by a loop that stops at the first missing one
OpenedUpTo(names, bad) ==
    [k \in 1..(IF bad = {} THEN Len(names) ELSE SetMin(bad)) |-> names[k]]

\* lines 88-90: merge the tagged datasets, restrict to the date range
collect_merge(dlist, date_slice, log, set_number) ==
    IF MergeConflict(dlist) THEN Failed("MergeError", log, <<set_number>>)
    ELSE Returned(SelSlice(Merge(dlist), date_slice), log, <<set_number>>)

\* lines 70-86: open and tag the file of every experiment, in list order
collect_load(sim, set_number, explist, date_slice, bad) ==
    IF bad # {}
    THEN Failed("IOError",
                OpenedUpTo([k \in 1..Len(explist) |-> SimName(explist[k])], bad),
                <<set_number>>)
    ELSE collect_merge(
            Stored([k \in 1..Len(explist) |->
                      Tagged(SimFile(explist[k], sim[explist[k]]),
                             explist[k], expname2conf_str(explist[k]))]),
            date_slice,
            [k \in 1..Len(explist) |-> SimName(explist[k])],
            set_number)

collect_from(sim, set_number, explist, date_slice) ==
    collect_load(sim, set_number, explist, date_slice,
                 {k \in 1..Len(explist) : sim[explist[k]] = "missing"})

\* variant: the range check comes after the experiment list is resolved
collect_sim_check_late(sim, set_number, allowed_set_range) ==
    LET o == collect_from(sim, set_number, gather_simset(set_number),
                          set_dateslices(set_number))
    IN IF set_number < allowed_set_range[1]
          \/ set_number > allowed_set_range[2]
       THEN Failed("ValueError", o.opened, o.resolved)
       ELSE o

collect_sim_ave_cre4set(sim, set_number, allowed_set_range) ==
    IF set_number < allowed_set_range[1] \/ set_number > allowed_set_range[2]
    THEN Failed("ValueError", <<>>, <<>>)
    ELSE collect_from(sim, set_number, gather_simset(set_number),
                      set_dateslices(set_number))

\* ----------------------------------------------------- Observation Collector
ObsIdName(file_part) == IF file_part = "-scaled" THEN "msevi-scaled"
                        ELSE "msevi-not_scaled"

\* the days visited by the loop  t = t1; while t <= t2: ...; t += dt
LoadDays(t1, t2) ==
    [k \in 1..((t2 - t1) \div OneDay + 1) |-> DayOf(t1 + (k - 1) * OneDay)]

\* variant: the merged days are returned without the final selection
SelTimesNone(d, time) == d

SelTimes(d, time) ==
    TakeRows(d, Stored([j \in 1..Len(time) |-> RowOf(d, time[j])]))

\* line 174: the selection of the requested timestamps
obs_select(dex, time, log) ==
    IF \E j \in 1..Len(time) : time[j] \notin Range(dex.time)
    THEN Failed("KeyError", log, <<>>)
    ELSE Returned(SelTimes(dex, time), log, <<>>)

\* lines 166-171: merge the days and tag them with the identity of the variant
obs_merge(obsdat, time, file_part, log) ==
    IF MergeConflict(obsdat) THEN Failed("MergeError", log, <<>>)
    ELSE obs_select(Tagged(Merge(obsdat), ObsIdName(file_part),
                           ObsIdName(file_part)),
                    time, log)

\* lines 153-161: open the file of every day of the loop
obs_load(obsfiles, time, file_part, days, bad) ==
    IF bad # {}
    THEN Failed("IOError",
                OpenedUpTo([k \in 1..Len(days) |-> ObsName(file_part, days[k])],
                           bad),
                <<>>)
    ELSE obs_merge(
            Stored([k \in 1..Len(days) |->
                      ObsFile(file_part, days[k],
                              obsfiles[<<file_part, days[k]>>])]),
            time, file_part,
            [k \in 1..Len(days) |-> ObsName(file_part, days[k])])

obs_days(obsfiles, time, file_part, days) ==
    obs_load(obsfiles, time, file_part, days,
             {k \in 1..Len(days) : obsfiles[<<file_part, days[k]>>] = "missing"})

get_obs_cre4time_list(obsfiles, time, file_part) ==
    IF time = <<>> THEN Failed("ValueError", <<>>, <<>>)
    ELSE obs_days(obsfiles, time, file_part,
                  LoadDays(SetMin(Range(time)), SetMax(Range(time))))

\* ------------------------------------------------------------ concat, dropna
\* for each row of the concatenation, the dataset and the row it comes from
RowOrigins(dlist) ==
    Flatten([k \in 1..Len(dlist) |->
               [j \in 1..Len(dlist[k].time) |-> <<k, j>>]])

\* variant: the sets are merged on the time axis (sorted, deduplicated)
ConcatMerged(dlist) ==
    LET m == Merge(dlist)
    IN [m EXCEPT !.expname =
            [x \in (1..Len(m.time)) \X m.idname |-> m.expname[x[2]]]]

Concat(dlist) ==
    LET iu == UNION {dlist[k].idname : k \in 1..Len(dlist)}
        tt == Flatten([k \in 1..Len(dlist) |-> dlist[k].time])
        ro == RowOrigins(dlist)
    IN [time    |-> tt,
        idname  |-> iu,
        cre     |-> Stored([x \in (1..Len(tt)) \X iu \X CT |->
                       LET d == dlist[ro[x[1]][1]]
                       IN IF x[2] \in d.idname
                          THEN d.cre[<<ro[x[1]][2], x[2], x[3]>>]
                          ELSE NaN]),
        expname |-> Stored([x \in (1..Len(tt)) \X iu |->
                       NameAt(dlist[ro[x[1]][1]], x[2])])]

\* variant: dropna(how = 'all'), an identity goes only when all is missing
DropNaClearHowAll(dall) ==
    {i \in dall.idname :
        \E r \in 1..Len(dall.time) :
            /\ dall.cre[<<r, i, "clear_ocean">>] # NaN
            /\ dall.expname[<<r, i>>] # NoName}

\* dall.sel(ct = 'clear_ocean').dropna('idname').idname
DropNaClear(dall) ==
    {i \in dall.idname :
        \A r \in 1..Len(dall.time) :
            /\ dall.cre[<<r, i, "clear_ocean">>] # NaN
            /\ dall.expname[<<r, i>>] # NoName}

SelIdnames(dall, idnames) ==
    [time    |-> dall.time,
     idname  |-> idnames,
     cre     |-> Stored([x \in (1..Len(dall.time)) \X idnames \X CT |-> dall.cre[x]]),
     expname |-> Stored([x \in (1..Len(dall.time)) \X idnames |-> dall.expname[x]])]

\* ---------------------------------------- Statistics and Cross-Set Aggregator
Numbered(n) == [all |-> FALSE, n |-> n]

AllSets == [all |-> TRUE, n |-> 0]

SetRange(allowed_set_range) ==
    [k \in 1..(allowed_set_range[2] + 1 - allowed_set_range[1]) |->
        allowed_set_range[1] + k - 1]

\* line 326: the merge of what was collected
stat4set_merged(dlist, log, res) ==
    IF MergeConflict(dlist) THEN Failed("MergeError", log, res)
    ELSE Returned(Merge(dlist), log, res)

\* variant: one try block around both observation variants
stat4set_merge_one_try(s, o1, o2) ==
    stat4set_merged(
        <<s.dset>> \o (IF o1.status = "ok" THEN <<o1.dset>> ELSE <<>>)
                   \o (IF o1.status = "ok" /\ o2.status = "ok"
                       THEN <<o2.dset>> ELSE <<>>),
        s.opened \o o1.opened
                 \o (IF o1.status = "ok" THEN o2.opened ELSE <<>>),
        s.resolved)

\* lines 305-326: the simulated data and the variants that were collected
stat4set_merge(s, o1, o2) ==
    stat4set_merged(
        <<s.dset>> \o (IF o1.status = "ok" THEN <<o1.dset>> ELSE <<>>)
                   \o (IF o2.status = "ok" THEN <<o2.dset>> ELSE <<>>),
        s.opened \o o1.opened \o o2.opened, s.resolved)

\* lines 309-323: the two attempts on the time axis of the simulated data
stat4set_obs(obsfiles, s) ==
    IF s.status # "ok" THEN s
    ELSE stat4set_merge(s,
            get_obs_cre4time_list(obsfiles, s.dset.time, "-scaled"),
            get_obs_cre4time_list(obsfiles, s.dset.time, "-not_scaled"))

\* variant helper: a dataset of one set restricted to some identities
TakeIds(d, idnames) ==
    [time    |-> d.time,
     idname  |-> idnames,
     cre     |-> Stored([x \in (1..Len(d.time)) \X idnames \X CT |-> d.cre[x]]),
     expname |-> Stored([i \in idnames |-> d.expname[i]])]

\* variant: the identities of one set restricted as 'strict' restricts a stack
stat4set_filtered(o, method) ==
    IF o.status # "ok" \/ method # "strict" THEN o
    ELSE Returned(
            TakeIds(o.dset,
                    {i \in o.dset.idname : \A r \in 1..Len(o.dset.time) :
                        o.dset.cre[<<r, i, "clear_ocean">>] # NaN}),
            o.opened, o.resolved)

\* variant: the method is applied to the result for one set as well
stat4set_numbered_strict(simfiles, obsfiles, set_number, allowed_set_range, method) ==
    stat4set_filtered(
        stat4set_obs(obsfiles,
            collect_sim_ave_cre4set(simfiles, set_number, allowed_set_range)),
        method)

\* get_stat4set for a set number that is a number (lines 297-326)
stat4set_numbered(simfiles, obsfiles, set_number, allowed_set_range, method) ==
    stat4set_obs(obsfiles,
        collect_sim_ave_cre4set(simfiles, set_number, allowed_set_range))

\* variant: the two method branches are exchanged
stat4all_select_swapped(dall, method, log, res) ==
    IF method = "strict" THEN Returned(dall, log, res)
    ELSE Returned(SelIdnames(dall, DropNaClear(dall)), log, res)

\* lines 361-377: the stack as it is, or restricted to complete identities
stat4all_select(dall, method, log, res) ==
    IF method = "all" THEN Returned(dall, log, res)
    ELSE Returned(SelIdnames(dall, DropNaClear(dall)), log, res)

\* variant: a set that fails to load is skipped, the others are stacked
stat4all_stack_skipping(outs, method, bad) ==
    IF bad = 1..Len(outs)
    THEN Failed("ValueError", Flatten([k \in 1..Len(outs) |-> outs[k].opened]),
                Flatten([k \in 1..Len(outs) |-> outs[k].resolved]))
    ELSE stat4all_select(
            Concat(Stored([j \in 1..Len(SortedSeq((1..Len(outs)) \ bad)) |->
                      outs[SortedSeq((1..Len(outs)) \ bad)[j]].dset])),
            method,
            Flatten([k \in 1..Len(outs) |-> outs[k].opened]),
            Flatten([k \in 1..Len(outs) |-> outs[k].resolved]))

\* lines 356-363: the loop ends at the first set that fails
stat4all_stack(outs, method, bad) ==
    IF bad # {}
    THEN Failed(outs[SetMin(bad)].status,
                Flatten([k \in 1..SetMin(bad) |-> outs[k].opened]),
                Flatten([k \in 1..SetMin(bad) |-> outs[k].resolved]))
    ELSE IF outs = <<>> THEN Failed("ValueError", <<>>, <<>>)
    ELSE stat4all_select(
            Concat(Stored([k \in 1..Len(outs) |-> outs[k].dset])),
            method,
            Flatten([k \in 1..Len(outs) |-> outs[k].opened]),
            Flatten([k \in 1..Len(outs) |-> outs[k].resolved]))

stat4all_outs(outs, method) ==
    stat4all_stack(outs, method,
                   {k \in 1..Len(outs) : outs[k].status # "ok"})

get_stat4all(simfiles, obsfiles, set_range, method) ==
    stat4all_outs(
        Stored([k \in 1..Len(set_range) |->
                  stat4set_numbered(simfiles, obsfiles, set_range[k],
                                    DefaultRange, "all")]),
        method)

get_stat4set(simfiles, obsfiles, set_number, allowed_set_range, method) ==
    IF set_number.all
    THEN get_stat4all(simfiles, obsfiles, SetRange(allowed_set_range), method)
    ELSE stat4set_numbered(simfiles, obsfiles, set_number.n,
                           allowed_set_range, method)

\* ------------------------------------------------------------------- state
VARIABLES sim, obs, op, args, out

vars == <<sim, obs, op, args, out>>

\* the outcome of the call: how it ended, the dataset returned, the files it
\* opened and the sets it resolved, in order
status == out.status
dset == out.dset
opened == out.opened
resolved == out.resolved

SimAllFull == [e \in Exps |-> "full"]

\* the simulated files: all complete, or one of them defective
SimEnvs == {[SimAllFull EXCEPT ![e] = sh] : e \in Exps, sh \in SimShapes}

ObsAll(shape) == [x \in Parts \X Days |-> shape]

\* the daily files of one variant: all complete, or one of them defective
PartEnvs == {[[d \in Days |-> "full"] EXCEPT ![x] = sh] :
               x \in Days, sh \in ObsShapes}

ObsEnvs == {[x \in Parts \X Days |->
               IF x[1] = "-scaled" THEN a[x[2]] ELSE b[x[2]]] :
              a \in PartEnvs, b \in PartEnvs} \cup {ObsAll("missing")}

AllowedRanges == {r \in SetNumbers \X SetNumbers : r[1] <= r[2]}
                   \cup {DefaultRange}

Init ==
    /\ \/ sim \in SimEnvs /\ obs \in {ObsAll("full"), ObsAll("missing")}
       \/ sim = SimAllFull /\ obs \in ObsEnvs
    /\ op = "none"
    /\ args = <<>>
    /\ out = Failed("none", <<>>, <<>>)

Finish(o) ==
    /\ out' = o
    /\ UNCHANGED <<sim, obs>>

CollectSim ==
    /\ op = "none"
    /\ \E s \in SetNumbers : \E r \in AllowedRanges :
          /\ op' = "collect_sim_ave_cre4set"
          /\ args' = [set_number |-> s, allowed_set_range |-> r]
          /\ Finish(collect_sim_ave_cre4set(sim, s, r))

Requests == UNION {[1..n -> Times] : n \in 0..MaxReq}

GetObs ==
    /\ op = "none"
    /\ \E time \in Requests : \E p \in Parts :
          /\ op' = "get_obs_cre4time_list"
          /\ args' = [time |-> time, file_part |-> p]
          /\ Finish(get_obs_cre4time_list(obs, time, p))

SetArgs == {Numbered(n) : n \in SetNumbers} \cup {AllSets}

GetStat4set ==
    /\ op = "none"
    /\ \E s \in SetArgs : \E r \in AllowedRanges : \E m \in Methods :
          /\ op' = "get_stat4set"
          /\ args' = [set_number |-> s, allowed_set_range |-> r, method |-> m]
          /\ Finish(get_stat4set(sim, obs, s, r, m))

\* set_range: nothing, range(lo, hi + 1), or the same read backwards
SetRanges == {<<>>} \cup {SetRange(r) : r \in AllowedRanges}
                    \cup {Reverse(SetRange(r)) : r \in AllowedRanges}

GetStat4all ==
    /\ op = "none"
    /\ \E sr \in SetRanges : \E m \in Methods :
          /\ op' = "get_stat4all"
          /\ args' = [set_range |-> sr, method |-> m]
          /\ Finish(get_stat4all(sim, obs, sr, m))

Next == CollectSim \/ GetObs \/ GetStat4set \/ GetStat4all

Spec == Init /\ [][Next]_vars

\* ================================================================== claims
IsCollect == op = "collect_sim_ave_cre4set"
IsObs == op = "get_obs_cre4time_list"
IsStat4set == op = "get_stat4set"
IsStat4all == op = "get_stat4all"

InRange(n, r) == r[1] <= n /\ n <= r[2]

SimMissing(n) == \E e \in Range(gather_simset(n)) : sim[e] = "missing"

\* C1: a set number below the lower or above the upper bound of
\* allowed_set_range makes collect_sim_ave_cre4set fail with the range error,
\* with no experiment list resolved and no file opened.
C1_RangeErrorBeforeIO ==
    (IsCollect /\ ~InRange(args.set_number, args.allowed_set_range))
        => (status = "ValueError" /\ resolved = <<>> /\ opened = <<>>)

C1_Witness ==
    /\ IsCollect
    /\ args.set_number > args.allowed_set_range[2]
    /\ SimMissing(args.set_number)
    /\ status = "ValueError"

\* C2: for a non-empty request whose files all open, get_obs_cre4time_list
\* loads exactly one file per calendar day from the day of the earliest to
\* the day of the latest requested timestamp, and no other file.
SpanDays(time) ==
    [k \in 1..(DayOf(SetMax(Range(time))) - DayOf(SetMin(Range(time))) + 1) |->
        DayOf(SetMin(Range(time))) + k - 1]

C2_LoadsEveryDayOfSpan ==
    (IsObs /\ args.time # <<>> /\ status \in {"ok", "KeyError"})
        => opened = [k \in 1..Len(SpanDays(args.time)) |->
                        ObsName(args.file_part, SpanDays(args.time)[k])]

\* C3: a dataset returned by get_obs_cre4time_list has exactly the requested
\* timestamps as its time axis, and once all daily files are loaded the call
\* fails with the selection error exactly when a requested timestamp is not
\* in the loaded data.
LoadedTimes ==
    UNION {Range(ObsFileTimes(opened[k][3], obs[<<opened[k][2], opened[k][3]>>])) :
             k \in {j \in 1..Len(opened) :
                      obs[<<opened[j][2], opened[j][3]>>] # "missing"}}

AllLoaded ==
    /\ args.time # <<>>
    /\ \A k \in 1..Len(opened) : obs[<<opened[k][2], opened[k][3]>>] # "missing"

C3_TimeAxisIsRequest ==
    IsObs =>
        /\ status = "ok" => dset.time = args.time
        /\ status = "KeyError"
              <=> (AllLoaded /\ ~(Range(args.time) \subseteq LoadedTimes))

C3_Witness ==
    /\ IsObs
    /\ status = "ok"
    /\ Len(dset.time) = 2
    /\ dset.time[1] > dset.time[2]
    /\ ~(LoadedTimes \subseteq Range(dset.time))

\* C4: for a numeric set number whose simulated data is collected,
\* get_stat4set returns the simulated data merged with exactly those of the
\* two observation variants whose collection succeeded; both variants are
\* attempted whatever the other does, and with both failing the result is
\* the non-empty simulated dataset alone.
SimOut == collect_sim_ave_cre4set(sim, args.set_number.n,
                                  args.allowed_set_range)

ObsOut(p) == get_obs_cre4time_list(obs, SimOut.dset.time, p)

OkParts == {p \in Parts : ObsOut(p).status = "ok"}

ObsOuts(simtime) ==
    Stored([p \in Parts |-> get_obs_cre4time_list(obs, simtime, p)])

SameCells(d, e, ids) ==
    /\ d.time = e.time
    /\ \A i \in ids :
          /\ d.expname[i] = e.expname[i]
          /\ \A r \in 1..Len(d.time) : \A c \in CT :
                d.cre[<<r, i, c>>] = e.cre[<<r, i, c>>]

C4_MergesSucceededVariants ==
    (IsStat4set /\ ~args.set_number.all)
        => LET s  == SimOut
               o  == ObsOuts(s.dset.time)
               ok == {p \in Parts : o[p].status = "ok"}
           IN s.status = "ok"
              => /\ status = "ok"
                 /\ dset.idname = s.dset.idname \cup {ObsIdName(p) : p \in ok}
                 /\ SameCells(dset, s.dset, s.dset.idname)
                 /\ \A p \in ok : SameCells(dset, o[p].dset, {ObsIdName(p)})
                 /\ opened = s.opened \o o["-scaled"].opened
                                \o o["-not_scaled"].opened
                 /\ ok = {} => (dset = s.dset /\ dset.idname # {})

C4_Witness ==
    /\ IsStat4set
    /\ ~args.set_number.all
    /\ status = "ok"
    /\ OkParts = {"-not_scaled"}
    /\ "msevi-not_scaled" \in dset.idname
    /\ Len(dset.time) > 0

\* C5: get_stat4set called with 'all' and allowed_set_range [lo, hi] returns
\* the aggregation of the per-set results of get_stat4set for every set
\* number lo..hi, each collected under the caller's allowed range.
PerSetOut(k) ==
    get_stat4set(sim, obs, Numbered(k), args.allowed_set_range, args.method)

C5_AllAggregatesCallerRange ==
    (/\ IsStat4set
     /\ args.set_number.all
     /\ \A k \in Range(SetRange(args.allowed_set_range)) :
           PerSetOut(k).status = "ok")
        => /\ status = "ok"
           /\ dset.time =
                 Flatten([j \in 1..Len(SetRange(args.allowed_set_range)) |->
                    PerSetOut(SetRange(args.allowed_set_range)[j]).dset.time])

\* C6: in 'strict' mode the idname axis of get_stat4all's output is exactly
\* the identities of the time-concatenated dataset with no missing value at
\* ct = 'clear_ocean' in any row; the time axis and every value of the
\* surviving identities are those of the concatenated dataset.
AllModeOut == get_stat4all(sim, obs, args.set_range, "all")

C6_StrictKeepsCompleteIdentities ==
    (IsStat4all /\ args.method = "strict" /\ status = "ok")
        => LET a    == AllModeOut
               dall == a.dset
           IN
           /\ a.status = "ok"
           /\ dset.idname =
                 {i \in dall.idname : \A r \in 1..Len(dall.time) :
                     dall.cre[<<r, i, "clear_ocean">>] # NaN}
           /\ dset.time = dall.time
           /\ \A r \in 1..Len(dall.time) : \A i \in dset.idname :
                 /\ dset.expname[<<r, i>>] = dall.expname[<<r, i>>]
                 /\ \A c \in CT : dset.cre[<<r, i, c>>] = dall.cre[<<r, i, c>>]

C6_Witness ==
    /\ IsStat4all
    /\ args.method = "strict"
    /\ status = "ok"
    /\ dset.idname # {}
    /\ \E i \in AllModeOut.dset.idname \ dset.idname :
          \E r \in 1..Len(dset.time) :
             AllModeOut.dset.cre[<<r, i, "clear_ocean">>] # NaN

\* C7: for the same set range and files, the idname values of the 'strict'
\* output of get_stat4all are among the idname values of its 'all' output.
C7_StrictSubsetOfAll ==
    (IsStat4all /\ args.method = "strict" /\ status = "ok")
        => LET a == AllModeOut
           IN a.status = "ok" /\ dset.idname \subseteq a.dset.idname

C7_Witness ==
    /\ IsStat4all
    /\ args.method = "strict"
    /\ status = "ok"
    /\ dset.idname # AllModeOut.dset.idname
    /\ Len(args.set_range) = 2

\* C8: in 'all' mode the time axis of get_stat4all's output is the per-set
\* time axes laid end to end in the order of set_range, unsorted and with
\* timestamps shared by two sets kept twice.
SetOut(k) ==
    get_stat4set(sim, obs, Numbered(args.set_range[k]), DefaultRange, "all")

SetTimes == Stored([k \in 1..Len(args.set_range) |-> SetOut(k).dset.time])

RECURSIVE SumLen(_, _)
SumLen(tt, k) == IF k = 0 THEN 0 ELSE SumLen(tt, k - 1) + Len(tt[k])

C8_TimeAxesEndToEnd ==
    (IsStat4all /\ args.method = "all" /\ status = "ok")
        => LET tt == SetTimes
           IN /\ dset.time = Flatten(tt)
              /\ Len(dset.time) = SumLen(tt, Len(args.set_range))

C8_Witness ==
    /\ IsStat4all
    /\ args.method = "all"
    /\ status = "ok"
    /\ Len(args.set_range) = 2
    /\ args.set_range[1] # args.set_range[2]
    /\ \E a, b \in 1..Len(dset.time) :
          /\ a <= Len(SetTimes[1])
          /\ b > Len(SetTimes[1])
          /\ dset.time[a] = dset.time[b]
    /\ \E a \in 1..(Len(dset.time) - 1) : dset.time[a] > dset.time[a + 1]

\* C9: for a set whose experiments have distinct identities, collecting it
\* with the experiment list reversed gives the same idname set, time axis and
\* values.
DistinctIds(explist) ==
    \A a, b \in 1..Len(explist) :
        a # b => expname2conf_str(explist[a]) # expname2conf_str(explist[b])

ReversedOut ==
    collect_from(sim, args.set_number, Reverse(gather_simset(args.set_number)),
                 set_dateslices(args.set_number))

C9_ReversedOrderSameData ==
    (IsCollect /\ status = "ok" /\ DistinctIds(gather_simset(args.set_number)))
        => LET r == ReversedOut
           IN /\ r.status = "ok"
              /\ r.dset.idname = dset.idname
              /\ SameCells(r.dset, dset, dset.idname)

C9_Witness ==
    /\ IsCollect
    /\ status = "ok"
    /\ DistinctIds(gather_simset(args.set_number))
    /\ Len(gather_simset(args.set_number)) > 1
    /\ Cardinality(dset.idname) > 1
    /\ \E r \in 1..Len(dset.time) : \E i \in dset.idname :
          dset.cre[<<r, i, "clear_ocean">>] = NaN

\* C10: a missing simulated file fails collect_sim_ave_cre4set and
\* get_stat4set, and stops get_stat4all at the first failing set with no
\* dataset returned and no later set collected; missing observation files
\* alone never fail get_stat4set.
FailingSets ==
    {k \in 1..Len(args.set_range) :
        \/ ~InRange(args.set_range[k], DefaultRange)
        \/ SimMissing(args.set_range[k])}

C10_SimFailureAborts ==
    /\ (IsCollect /\ InRange(args.set_number, args.allowed_set_range))
          => IF SimMissing(args.set_number)
             THEN status = "IOError" /\ dset = NoData
             ELSE status = "ok"
    /\ (IsStat4set /\ ~args.set_number.all
          /\ InRange(args.set_number.n, args.allowed_set_range))
          => IF SimMissing(args.set_number.n)
             THEN status = "IOError" /\ dset = NoData
             ELSE status = "ok"
    /\ (IsStat4all /\ FailingSets # {})
          => LET k == SetMin(FailingSets) IN
             /\ status = IF SimMissing(args.set_range[k])
                            /\ InRange(args.set_range[k], DefaultRange)
                         THEN "IOError" ELSE "ValueError"
             /\ dset = NoData
             /\ Len(resolved) <= k
             /\ \A j \in 1..Len(resolved) : resolved[j] = args.set_range[j]
             /\ \A j \in (k + 1)..Len(args.set_range) :
                   args.set_range[j] \notin Range(resolved)
                      \/ \E h \in 1..k : args.set_range[h] = args.set_range[j]

C10_Witness ==
    /\ IsStat4all
    /\ Len(args.set_range) = 2
    /\ FailingSets = {1}
    /\ status = "IOError"
    /\ resolved = <<args.set_range[1]>>
    /\ Len(opened) > 0

\* C11: for a numeric set number the result of get_stat4set is the same for
\* method = 'strict' and method = 'all', so every identity of the set is
\* kept, those with a missing clear-sky value included; with the set number
\* 'all' the method decides: 'strict' keeps the complete identities of the
\* 'all' result only.
OtherMethod(m) == IF m = "all" THEN "strict" ELSE "all"

ClearGaps(d) ==
    {i \in d.idname :
        \E r \in 1..Len(d.time) : d.cre[<<r, i, "clear_ocean">>] = NaN}

====
